---- MODULE Spec2Model ----
(***************************************************************************)
(* Talk2DB (src/app.py): the self-correction loop that turns a question    *)
(* into a SQL query, runs it, retries on failure, and the presentation of  *)
(* a successful result (table and chart).                                  *)
(*                                                                         *)
(* Texts are sequences of string tokens: a question is a sequence of       *)
(* words, the model's response a sequence of tokens among which "'''sql"   *)
(* and "'''" are the fences (standing for the backtick fences), a prompt   *)
(* the sequence of its parts.                                              *)
(***************************************************************************)
EXTENDS Integers, Sequences, FiniteSets, TLC

(* ---------------- bounds of the explored inputs ---------------- *)
NumErrs == 2
MaxRespLen == 3
MaxCols == 3

(* ---------------- program constants ---------------- *)
max_retries == 2
FirstK == 3
RetryK == 5

(* ---------------- input domains ---------------- *)
\* the messages of the exceptions the external calls raise
ErrNames == <<"column does not exist", "syntax error", "relation does not exist", "type mismatch">>
ExecErrs == {ErrNames[i] : i \in 1..NumErrs}
RetrievalErrs == {"index unreachable"}
ModelErrs == {"model unavailable"}
ConnectErrs == {"connection refused"}
CommitErrs == {"commit failed"}

SeqUpTo(S, n) == UNION {[1..m -> S] : m \in 0..n}

\* the questions submitted (non-empty: the script runs only if user_query)
Questions == {<<"top", "sales">>, <<"Pie", "of", "sales">>, <<"sales", "line">>, <<"line", "or", "pie">>}

SqlFence == "'''sql"
Fence == "'''"
Blank == " "
RespTokens == {SqlFence, Fence, "SELECT", Blank}
Responses == SeqUpTo(RespTokens, MaxRespLen)

NumCells == {"1.0", "inf", "nan"}
OtherDtypes == {"object", "datetime", "bool"}
Columns(n) ==
    {[dtype |-> "number", cells |-> c] : c \in [1..n -> NumCells]}
    \cup {[dtype |-> d, cells |-> [i \in 1..n |-> "v"]] : d \in OtherDtypes}
RowCounts == {0, 1}
DataFrames ==
    UNION {{[nrows |-> n, cols |-> cs] : cs \in SeqUpTo(Columns(n), MaxCols)} : n \in RowCounts}
Unbound == [nrows |-> -1, cols |-> <<>>]

IndexErrorMsg == "list index out of range"

(* ---------------- pure helpers ---------------- *)
Min(S) == CHOOSE x \in S : \A y \in S : x <= y

\* current_k = 3 if attempt == 0 else 5
CurrentK_Flat(a) == FirstK
CurrentK(a) == IF a = 0 THEN FirstK ELSE RetryK

\* while attempt < max_retries and not success
LoopCond_IgnoresSuccess(a, s) == a < max_retries
LoopCond(a, s) == a < max_retries /\ ~s

DocNames == <<"doc1", "doc2", "doc3", "doc4", "doc5", "doc6">>
\* "\n".join(d.page_content for d in similarity_search(q, k))
SchemaContext(k) == [i \in 1..k |-> DocNames[i]]

\* retry_hint: empty on the first attempt, else the fix instruction with the error
FixInstruction == "FIX THIS ERROR: Your previous query failed with:"
RetryHint(a, err) ==
    IF a > 0 THEN <<FixInstruction, err, "Please re-check table aliases and column locations.">> ELSE <<>>

\* the prompt f-string: schema context and question are its only substitutions
BuildPrompt(ctx, q) ==
    <<"System:">> \o ctx \o <<"Rules">> \o <<"Question:">> \o q \o <<"SQL:">>

Positions(s, tok) == {i \in 1..Len(s) : s[i] = tok}
UpTo(s, stops) == IF stops = {} THEN s ELSE SubSeq(s, 1, Min(stops) - 1)

\* str.strip()
Strip(s) ==
    LET keep == {i \in 1..Len(s) : s[i] # Blank}
    IN IF keep = {} THEN <<>>
       ELSE SubSeq(s, Min(keep), CHOOSE x \in keep : \A y \in keep : y <= x)

\* response.content.split("'''sql")[1].split("'''")[0].strip()
\* ok = FALSE stands for the IndexError of [1] when there is no "'''sql"
ExtractSql(resp) ==
    LET opens == Positions(resp, SqlFence)
    IN IF opens = {} THEN [ok |-> FALSE, sql |-> <<>>]
       ELSE LET rest == SubSeq(resp, Min(opens) + 1, Len(resp))
                part1 == UpTo(rest, Positions(rest, SqlFence))
                part0 == UpTo(part1, Positions(part1, Fence))
            IN [ok |-> TRUE, sql |-> Strip(part0)]

\* df.empty
Empty(d) == d.nrows = 0 \/ Len(d.cols) = 0

\* df.select_dtypes(include=...).columns, as column positions in result order
RECURSIVE SelectFrom(_, _, _)
SelectFrom(d, include, i) ==
    IF i > Len(d.cols) THEN <<>>
    ELSE (IF d.cols[i].dtype \in include THEN <<i>> ELSE <<>>) \o SelectFrom(d, include, i + 1)
SelectDtypes(d, include) == SelectFrom(d, include, 1)

NumberDtypes == {"number"}
CatDtypes == {"object", "datetime"}

\* the "AI Visualization" block: px.bar(df, x=cats[0], y=nums[0], color=cats[0])
ChartFor_ByCue(q, d) ==
    LET nums == SelectDtypes(d, NumberDtypes)
        cats == SelectDtypes(d, CatDtypes)
    IN IF Len(nums) > 0 /\ Len(cats) > 0
       THEN <<[kind |-> IF \E i \in 1..Len(q) : q[i] \in {"Pie", "pie"} THEN "pie" ELSE "bar",
               x |-> cats[1], y |-> nums[Len(nums)], color |-> cats[1]]>>
       ELSE <<>>
ChartFor(q, d) ==
    LET nums == SelectDtypes(d, NumberDtypes)
        cats == SelectDtypes(d, CatDtypes)
    IN IF Len(nums) > 0 /\ Len(cats) > 0
       THEN <<[kind |-> "bar", x |-> cats[1], y |-> nums[1], color |-> cats[1]]>>
       ELSE <<>>

\* replacing non-finite cells by a missing-value marker (the code has no such step)
NormalizeCol(c) ==
    [c EXCEPT !.cells = [i \in DOMAIN c.cells |->
                            IF c.cells[i] \in {"inf", "nan"} THEN "missing" ELSE c.cells[i]]]
Normalized(d) == [d EXCEPT !.cols = [i \in DOMAIN d.cols |-> NormalizeCol(d.cols[i])]]

(* ---------------- state ---------------- *)
VARIABLES
    pc,              \* position in the script
    user_query, attempt, success, error_feedback, sql_raw,
    current_k, schema_context, retry_hint, prompt, df,
    exc,             \* the exception in flight: <<>> or <<[kind, msg]>>
    conns,           \* every Connection made by engine.connect(): "open", "txn" or "closed"
    conn,            \* the Connection of the try block (0: none)
    shown_df, chart, \* what the results block hands to the presentation layer
    reported,        \* the messages shown by st.warning("Last Error: ...")
    klog,            \* history: k of every attempt started
    errlog,          \* history: [kind, msg] of every exception caught
    calls,           \* history: number of retrievals, model invocations, query executions
    fbAtStart,       \* history: error_feedback at the start of every attempt
    fenced,          \* history: whether the last response held a "'''sql" fence
    executed,        \* history: the DataFrame pd.read_sql returned last
    failedConn,      \* history: the Connection the failed query ran on (0: none)
    rollbackConn     \* history: the Connection the handler sent ROLLBACK on (0: none)

vars == <<pc, user_query, attempt, success, error_feedback, sql_raw,
          current_k, schema_context, retry_hint, prompt, df,
          exc, conns, conn, shown_df, chart, reported,
          klog, errlog, calls, fbAtStart, fenced, executed, failedConn, rollbackConn>>

locals == <<current_k, schema_context, retry_hint, prompt>>
output == <<shown_df, chart, reported>>
history == <<klog, errlog, calls, fbAtStart, fenced, executed, failedConn, rollbackConn>>

Init ==
    /\ pc = "idle"
    /\ user_query = <<>>
    /\ attempt = 0
    /\ success = FALSE
    /\ error_feedback = ""
    /\ sql_raw = <<>>
    /\ current_k = 0
    /\ schema_context = <<>>
    /\ retry_hint = <<>>
    /\ prompt = <<>>
    /\ df = Unbound
    /\ exc = <<>>
    /\ conns = <<>>
    /\ conn = 0
    /\ shown_df = <<>>
    /\ chart = <<>>
    /\ reported = <<>>
    /\ klog = <<>>
    /\ errlog = <<>>
    /\ calls = [retrieve |-> 0, invoke |-> 0, execute |-> 0]
    /\ fbAtStart = <<>>
    /\ fenced = FALSE
    /\ executed = Unbound
    /\ failedConn = 0
    /\ rollbackConn = 0

(* ---------------- actions ---------------- *)
\* an exception leaves the try block for the except clause
Raise(kind, msg) ==
    /\ pc' = "except"
    /\ exc' = <<[kind |-> kind, msg |-> msg]>>

\* if submit_button and user_query: the loop's variables are set up
Submit ==
    /\ pc = "idle"
    /\ \E q \in Questions : user_query' = q
    /\ attempt' = 0
    /\ success' = FALSE
    /\ error_feedback' = ""
    /\ sql_raw' = <<>>
    /\ pc' = "loop"
    /\ UNCHANGED <<locals, df, exc, conns, conn, output, history>>

\* the while test holds: the attempt starts and fixes its k
LoopEnter ==
    /\ pc = "loop"
    /\ LoopCond(attempt, success)
    /\ current_k' = CurrentK(attempt)
    /\ klog' = Append(klog, CurrentK(attempt))
    /\ fbAtStart' = Append(fbAtStart, error_feedback)
    /\ pc' = "retrieve"
    /\ UNCHANGED <<user_query, attempt, success, error_feedback, sql_raw,
                   schema_context, retry_hint, prompt, df, exc, conns, conn,
                   output, errlog, calls, fenced, executed, failedConn, rollbackConn>>

\* the while test fails: on to the results block
LoopExit ==
    /\ pc = "loop"
    /\ ~LoopCond(attempt, success)
    /\ pc' = "present"
    /\ UNCHANGED <<user_query, attempt, success, error_feedback, sql_raw,
                   locals, df, exc, conns, conn, output, history>>

\* vectorstore.similarity_search(user_query, k=current_k) returns
RetrieveOk ==
    /\ pc = "retrieve"
    /\ schema_context' = SchemaContext(current_k)
    /\ calls' = [calls EXCEPT !.retrieve = @ + 1]
    /\ pc' = "build"
    /\ UNCHANGED <<user_query, attempt, success, error_feedback, sql_raw,
                   current_k, retry_hint, prompt, df, exc, conns, conn,
                   output, klog, errlog, fbAtStart, fenced, executed, failedConn, rollbackConn>>

\* a mutant of RetrieveFails: the failure leaves the loop instead of being caught
RetrieveFails_Propagates ==
    /\ pc = "retrieve"
    /\ \E e \in RetrievalErrs : exc' = <<[kind |-> "retrieval", msg |-> e]>>
    /\ calls' = [calls EXCEPT !.retrieve = @ + 1]
    /\ pc' = "crashed"
    /\ UNCHANGED <<user_query, attempt, success, error_feedback, sql_raw,
                   locals, df, conns, conn,
                   output, klog, errlog, fbAtStart, fenced, executed, failedConn, rollbackConn>>

\* vectorstore.similarity_search raises: it is inside the try
RetrieveFails ==
    /\ pc = "retrieve"
    /\ \E e \in RetrievalErrs : Raise("retrieval", e)
    /\ calls' = [calls EXCEPT !.retrieve = @ + 1]
    /\ UNCHANGED <<user_query, attempt, success, error_feedback, sql_raw,
                   locals, df, conns, conn,
                   output, klog, errlog, fbAtStart, fenced, executed, failedConn, rollbackConn>>

\* retry_hint and prompt are built
Build ==
    /\ pc = "build"
    /\ retry_hint' = RetryHint(attempt, error_feedback)
    /\ prompt' = BuildPrompt(schema_context, user_query)
    /\ pc' = "invoke"
    /\ UNCHANGED <<user_query, attempt, success, error_feedback, sql_raw,
                   current_k, schema_context, df, exc, conns, conn,
                   output, history>>

HasSqlFence(r) == \E i \in 1..Len(r) : r[i] = SqlFence

\* response = llm.invoke(prompt); sql_raw = response.content.split(...)[1].split(...)[0].strip()
InvokeOk ==
    /\ pc = "invoke"
    /\ \E r \in Responses :
         /\ ExtractSql(r).ok
         /\ sql_raw' = ExtractSql(r).sql
         /\ fenced' = HasSqlFence(r)
    /\ calls' = [calls EXCEPT !.invoke = @ + 1]
    /\ pc' = "connect"
    /\ UNCHANGED <<user_query, attempt, success, error_feedback,
                   locals, df, exc, conns, conn,
                   output, klog, errlog, fbAtStart, executed, failedConn, rollbackConn>>

\* the response has no fenced block: the [1] raises IndexError
InvokeMalformed ==
    /\ pc = "invoke"
    /\ \E r \in Responses :
         /\ ~ExtractSql(r).ok
         /\ fenced' = HasSqlFence(r)
    /\ Raise("malformed", IndexErrorMsg)
    /\ calls' = [calls EXCEPT !.invoke = @ + 1]
    /\ UNCHANGED <<user_query, attempt, success, error_feedback, sql_raw,
                   locals, df, conns, conn,
                   output, klog, errlog, fbAtStart, executed, failedConn, rollbackConn>>

\* llm.invoke(prompt) raises
InvokeFails ==
    /\ pc = "invoke"
    /\ \E e \in ModelErrs : Raise("model", e)
    /\ calls' = [calls EXCEPT !.invoke = @ + 1]
    /\ UNCHANGED <<user_query, attempt, success, error_feedback, sql_raw,
                   locals, df, conns, conn,
                   output, klog, errlog, fbAtStart, fenced, executed, failedConn, rollbackConn>>

\* with engine.connect() as conn: a new Connection
ConnectOk ==
    /\ pc = "connect"
    /\ conns' = Append(conns, "open")
    /\ conn' = Len(conns) + 1
    /\ pc' = "begin"
    /\ UNCHANGED <<user_query, attempt, success, error_feedback, sql_raw,
                   locals, df, exc, output, history>>

\* engine.connect() raises
ConnectFails ==
    /\ pc = "connect"
    /\ \E e \in ConnectErrs : Raise("connect", e)
    /\ UNCHANGED <<user_query, attempt, success, error_feedback, sql_raw,
                   locals, df, conns, conn, output, history>>

\* with conn.begin(): the transaction of the attempt
Begin ==
    /\ pc = "begin"
    /\ conns' = [conns EXCEPT ![conn] = "txn"]
    /\ pc' = "execute"
    /\ UNCHANGED <<user_query, attempt, success, error_feedback, sql_raw,
                   locals, df, exc, conn, output, history>>

\* df = pd.read_sql(text(sql_raw), conn); success = True
ExecuteOk ==
    /\ pc = "execute"
    /\ \E d \in DataFrames : df' = d /\ executed' = d
    /\ success' = TRUE
    /\ calls' = [calls EXCEPT !.execute = @ + 1]
    /\ pc' = "commit"
    /\ UNCHANGED <<user_query, attempt, error_feedback, sql_raw,
                   locals, exc, conns, conn,
                   output, klog, errlog, fbAtStart, fenced, failedConn, rollbackConn>>

\* pd.read_sql raises; leaving the two with blocks rolls the transaction back
\* and closes the Connection
ExecuteFails ==
    /\ pc = "execute"
    /\ \E e \in ExecErrs : Raise("execution", e)
    /\ calls' = [calls EXCEPT !.execute = @ + 1]
    /\ conns' = [conns EXCEPT ![conn] = "closed"]
    /\ failedConn' = conn
    /\ UNCHANGED <<user_query, attempt, success, error_feedback, sql_raw,
                   locals, df, conn,
                   output, klog, errlog, fbAtStart, fenced, executed, rollbackConn>>

\* leaving with conn.begin() commits; leaving with engine.connect() closes
CommitOk ==
    /\ pc = "commit"
    /\ conns' = [conns EXCEPT ![conn] = "closed"]
    /\ pc' = "loop"
    /\ UNCHANGED <<user_query, attempt, success, error_feedback, sql_raw,
                   locals, df, exc, conn, output, history>>

\* the commit raises, after success = True; the Connection is closed
CommitFails ==
    /\ pc = "commit"
    /\ \E e \in CommitErrs : Raise("commit", e)
    /\ conns' = [conns EXCEPT ![conn] = "closed"]
    /\ UNCHANGED <<user_query, attempt, success, error_feedback, sql_raw,
                   locals, df, conn, output, history>>

\* except Exception as e: attempt += 1; error_feedback = str(e)
Except ==
    /\ pc = "except"
    /\ attempt' = attempt + 1
    /\ error_feedback' = exc[1].msg
    /\ errlog' = Append(errlog, exc[1])
    /\ exc' = <<>>
    /\ pc' = "reset"
    /\ UNCHANGED <<user_query, success, sql_raw, locals, df, conns, conn,
                   output, klog, calls, fbAtStart, fenced, executed, failedConn, rollbackConn>>

\* with engine.connect() as conn: conn.execute(text("ROLLBACK")), on a new Connection
ResetOk ==
    /\ pc = "reset"
    /\ conns' = Append(conns, "closed")
    /\ conn' = Len(conns) + 1
    /\ rollbackConn' = Len(conns) + 1
    /\ pc' = "report"
    /\ UNCHANGED <<user_query, attempt, success, error_feedback, sql_raw,
                   locals, df, exc, output, klog, errlog, calls, fbAtStart, fenced, executed, failedConn>>

\* engine.connect() or the ROLLBACK raises inside the except clause: nothing catches it
ResetFails ==
    /\ pc = "reset"
    /\ \E e \in ConnectErrs : exc' = <<[kind |-> "reset", msg |-> e]>>
    /\ pc' = "crashed"
    /\ UNCHANGED <<user_query, attempt, success, error_feedback, sql_raw,
                   locals, df, conns, conn, output, history>>

\* if attempt == max_retries: st.error(...); st.warning(f"Last Error: {error_feedback}")
Report ==
    /\ pc = "report"
    /\ reported' = IF attempt = max_retries THEN Append(reported, error_feedback) ELSE reported
    /\ pc' = "loop"
    /\ UNCHANGED <<user_query, attempt, success, error_feedback, sql_raw,
                   locals, df, exc, conns, conn, shown_df, chart, history>>

\* a mutant of Present: non-finite cells are replaced before the table is shown
Present_Normalizing ==
    /\ pc = "present"
    /\ IF success /\ ~Empty(df)
       THEN shown_df' = <<Normalized(df)>> /\ chart' = ChartFor(user_query, df)
       ELSE UNCHANGED <<shown_df, chart>>
    /\ pc' = "done"
    /\ UNCHANGED <<user_query, attempt, success, error_feedback, sql_raw,
                   locals, df, exc, conns, conn, reported, history>>

\* if success and not df.empty: st.dataframe(df) and the chart
Present ==
    /\ pc = "present"
    /\ IF success /\ ~Empty(df)
       THEN shown_df' = <<df>> /\ chart' = ChartFor(user_query, df)
       ELSE UNCHANGED <<shown_df, chart>>
    /\ pc' = "done"
    /\ UNCHANGED <<user_query, attempt, success, error_feedback, sql_raw,
                   locals, df, exc, conns, conn, reported, history>>

Next ==
    \/ Submit
    \/ LoopEnter
    \/ LoopExit
    \/ RetrieveOk
    \/ RetrieveFails
    \/ Build
    \/ InvokeOk
    \/ InvokeMalformed
    \/ InvokeFails
    \/ ConnectOk
    \/ ConnectFails
    \/ Begin
    \/ ExecuteOk
    \/ ExecuteFails
    \/ CommitOk
    \/ CommitFails
    \/ Except
    \/ ResetOk
    \/ ResetFails
    \/ Report
    \/ Present

Spec == Init /\ [][Next]_vars

(* ======================= the claims ======================= *)
Terminated == pc \in {"done", "crashed"}
Outcome ==
    IF pc = "crashed" THEN "Unhandled"
    ELSE IF success THEN "Succeeded" ELSE "ExhaustedFailure"
Contains(p, t) == \E i \in 1..Len(p) : p[i] = t
NonFinite == {"inf", "nan"}
HasNonFinite(d) == \E i \in 1..Len(d.cols) : \E j \in 1..d.nrows : d.cols[i].cells[j] \in NonFinite
NumIdx(d) == {i \in 1..Len(d.cols) : d.cols[i].dtype = "number"}
CatIdx(d) == {i \in 1..Len(d.cols) : d.cols[i].dtype \in {"object", "datetime"}}
Lower(w) == IF w = "Pie" THEN "pie" ELSE w
HasCue(q, cue) == \E i \in 1..Len(q) : Lower(q[i]) = cue
CueKind(q) == IF HasCue(q, "pie") THEN "pie" ELSE IF HasCue(q, "line") THEN "line" ELSE "bar"

\* C1: the loop starts at most max_retries (= 2) attempts, every attempt after
\* the first uses a k strictly greater than the attempt before it, the first
\* attempt uses k = 3 and the retry k = 5.
C1_BoundedEscalatingAttempts ==
    /\ Len(klog) <= 2
    /\ calls.retrieve <= 2 /\ calls.invoke <= 2 /\ calls.execute <= 2
    /\ \A i \in 2..Len(klog) : klog[i] > klog[i - 1]
    /\ (Len(klog) >= 1 => klog[1] = 3)
    /\ (Len(klog) >= 2 => klog[2] = 5)
C1_Witness == pc = "done" /\ Len(klog) = 2

\* C2: once an execution has succeeded, no further attempt starts and no
\* further retrieval, model invocation or query execution happens, whatever
\* budget remains.
C2_EarlyTermination == [][success => (calls' = calls /\ klog' = klog)]_vars
C2_Witness == pc = "done" /\ success /\ attempt = 0 /\ Len(klog) = 1

\* C3: on every attempt after a failed one, the prompt sent to the model holds
\* the exact error message of the failed attempt and the instruction to fix
\* it; the first attempt's prompt holds neither.
C3_PromptCarriesError ==
    pc = "invoke" =>
        IF attempt > 0
        THEN Contains(prompt, error_feedback) /\ Contains(prompt, FixInstruction)
        ELSE ~Contains(prompt, FixInstruction)

\* C4: when every attempt has failed and the budget is exhausted the loop ends
\* in ExhaustedFailure and the error reported is the message of the last
\* attempt; the failure is reported at most once, and only with the budget
\* exhausted.
C4_LastErrorReportedOnExhaustion ==
    /\ Len(reported) <= 1
    /\ (reported # <<>> => attempt = max_retries /\ reported[1] = errlog[Len(errlog)].msg)
    /\ (Terminated /\ ~success /\ Len(errlog) = max_retries =>
            Outcome = "ExhaustedFailure" /\ reported = <<errlog[max_retries].msg>>)

\* C5 as stated: a failure of the similarity search is fatal: it is not caught
\* as an attempt failure, consumes no budget and no attempt follows it.
C5_RetrievalFailureIsFatal ==
    \A i \in 1..Len(errlog) :
        errlog[i].kind = "retrieval" => (attempt < i /\ Len(klog) <= i)

\* C5 as amended: a failure of the similarity search is caught like any other
\* attempt failure: it consumes one attempt, its message becomes the error
\* feedback (that of the next attempt when one starts), and it never leaves
\* the loop as an exception (only the handler's own reset does).
C5_RetrievalFailureIsOrdinary ==
    /\ (pc = "crashed" => exc[1].kind = "reset")
    /\ (pc = "except" /\ exc[1].kind = "retrieval" => attempt = Len(errlog))
    /\ \A i \in 1..Len(errlog) :
           errlog[i].kind = "retrieval" =>
               /\ attempt >= i
               /\ (attempt = i => error_feedback = errlog[i].msg)
               /\ (Len(fbAtStart) > i => fbAtStart[i + 1] = errlog[i].msg)
C5_Witness ==
    /\ Len(errlog) >= 1 /\ errlog[1].kind = "retrieval"
    /\ Len(klog) = 2 /\ pc = "invoke"

\* C6: a response without a fenced block fails the attempt before any query is
\* run, counts as exactly one attempt, and its error text is the error
\* feedback of the next attempt, or the error reported when the budget is
\* exhausted.
C6_MalformedIsAttemptFailure ==
    /\ (pc \in {"connect", "begin", "execute", "commit"} => fenced)
    /\ (pc = "except" /\ exc[1].kind = "malformed" =>
            ~fenced /\ calls.execute + 1 <= Len(klog) /\ exc[1].msg = IndexErrorMsg)
    /\ (pc # "except" => attempt = Len(errlog))
    /\ \A i \in 1..Len(errlog) :
           errlog[i].kind = "malformed" =>
               /\ errlog[i].msg = IndexErrorMsg
               /\ (attempt = i => error_feedback = IndexErrorMsg)
               /\ (Len(fbAtStart) > i => fbAtStart[i + 1] = IndexErrorMsg)
               /\ (Terminated =>
                      IF i < max_retries
                      THEN Len(fbAtStart) > i
                      ELSE reported = <<IndexErrorMsg>>)

\* C7 as stated: no table handed to the presentation layer holds a non-finite
\* cell.
C7_NoNonFiniteShown == shown_df # <<>> => ~HasNonFinite(shown_df[1])

\* C7 as amended: the table handed to the presentation layer is exactly the
\* one pd.read_sql returned; non-finite cells are passed on unchanged.
C7_ResultShownAsRead ==
    /\ (shown_df # <<>> => success /\ shown_df[1] = executed)
    /\ (pc = "done" /\ success /\ ~Empty(executed) => shown_df = <<executed>>)
C7_Witness == shown_df # <<>> /\ HasNonFinite(shown_df[1])

\* C8 as stated: the chart kind follows the cue in the question (pie, line,
\* else bar).
C8_KindFollowsCue == chart # <<>> => chart[1].kind = CueKind(user_query)

\* C8 as amended: for a non-empty result with a numeric and an object/datetime
\* column the chart is always a bar chart, whatever the question says,
\* plotting the first object/datetime column against the first numeric
\* column; otherwise there is no chart.
C8_AlwaysBarFirstColumns ==
    pc = "done" =>
        IF success /\ ~Empty(df) /\ NumIdx(df) # {} /\ CatIdx(df) # {}
        THEN chart = <<[kind |-> "bar", x |-> Min(CatIdx(df)), y |-> Min(NumIdx(df)),
                        color |-> Min(CatIdx(df))]>>
        ELSE chart = <<>>
C8_Witness ==
    /\ pc = "done" /\ chart # <<>>
    /\ HasCue(user_query, "pie")
    /\ Cardinality(NumIdx(df)) >= 2

\* C9: no transaction of an earlier attempt is open when an attempt starts or
\* when the loop has ended, and the connection the handler resets is the one
\* the failed query ran on.
C9_FailedConnectionIsReset ==
    /\ (pc \in {"loop", "retrieve", "present", "done", "crashed"} =>
            \A c \in 1..Len(conns) : conns[c] # "txn")
    /\ (pc = "report" /\ errlog[Len(errlog)].kind = "execution" => rollbackConn = failedConn)

\* C10: the processing of a question ends only in Succeeded or
\* ExhaustedFailure, never by an unhandled exception.
C10_OnlyTwoTerminalStates ==
    Terminated => Outcome \in {"Succeeded", "ExhaustedFailure"}

====
